---- MODULE Spec2Model ----
(***************************************************************************)
(* A model of js/app.js: the lane-crossing arcade game (Level, Entity,     *)
(* Enemy, Player, Entities, InputHandler, Engine).                         *)
(*                                                                         *)
(* Units.  Positions are pixels.  Wall-clock readings (Date.now()) and the *)
(* frame time handed to Engine.update are integer milliseconds; a frame    *)
(* time of k ms stands for the double k / 1000.0 the code computes.        *)
(* Engine.timeSinceReset is kept as the IEEE-754 double the code holds,    *)
(* because the grace period compares an accumulated sum of doubles with 2. *)
(***************************************************************************)
EXTENDS Integers, Sequences, FiniteSets, TLC

VARIABLES
    state,           \* Engine.state
    score,           \* Engine.score
    level,           \* Engine.level: [number, start]
    player,          \* Engine.entities.player: [pos]
    enemies,         \* Engine.entities.enemies: sequence of [pos, movement]
    timeSinceReset,  \* Engine.timeSinceReset, a double
    lastTime,        \* Engine.lastTime, ms
    inputsEnabled,   \* Engine.inputHandler.inputsEnabled
    loading,         \* a Resources.onReady callback is registered and not yet run
    runs,            \* history: the calls of Engine.run since the last reset
    chains,          \* the animation frames asked for and not yet run
    loopDt,          \* history: the frame times runLoopIteration passed to update
    frames,          \* history: length of the run of Running frames of 0.1 s
                     \* with failed spawn trials since the reset, or -1
    probe            \* the call of a function on its own: [fn, arguments, result]

vars == <<state, score, level, player, enemies, timeSinceReset, lastTime,
          inputsEnabled, loading, runs, chains, loopDt, frames, probe>>

----------------------------------------------------------------------------
(* Level *)

tileWidth == 101
tileHeight == 83
widthTiles == 5
heightTiles == 6

widthPixels == tileWidth * widthTiles
heightPixels == tileHeight * heightTiles

\* Level.generateTiles: this.tiles; tiles[i] of the code is Tiles[i + 1]
Tiles ==
    [column \in 1..widthTiles |-> "images/water-block.png"]
    \o [i \in 1..(3 * widthTiles) |-> "images/stone-block.png"]
    \o [i \in 1..(2 * widthTiles) |-> "images/grass-block.png"]

GetTileByHeight(row, col) ==
    LET index == row * heightTiles + col
    IN  IF index \in 0..(Len(Tiles) - 1) THEN Tiles[index + 1] ELSE "undefined"

\* Level.getTile: an array read; an index that is no element reads as undefined
GetTile(row, col) ==
    LET index == row * widthTiles + col
    IN  IF index \in 0..(Len(Tiles) - 1) THEN Tiles[index + 1] ELSE "undefined"

\* Level.constructor: this.start
LevelStart == [x |-> tileWidth * 2, y |-> tileHeight * 5]

\* Levels.reset() / Levels.next(): the level factory.  A level is generated
\* afresh; `number` counts the levels from 1.
LevelsReset == [number |-> 1, start |-> LevelStart]
LevelsNext(lv) == [number |-> lv.number + 1, start |-> LevelStart]

----------------------------------------------------------------------------
(* IEEE-754 doubles, as far as Engine.timeSinceReset needs them.           *)
(* A double is [neg, hi, lo]: the magnitude is (hi * 2^28 + lo) * 2^-56.   *)
(* Every value that occurs is a multiple of 2^-56 below 8.                 *)

Limb == 2^28

Zero == [neg |-> FALSE, hi |-> 0, lo |-> 0]
\* 0.1 = 0x1.999999999999ap-4 = 7205759403792794 * 2^-56
Tenth == [neg |-> FALSE, hi |-> 26843545, lo |-> 161061274]
\* 2 = 2^57 * 2^-56
Two == [neg |-> FALSE, hi |-> 2^29, lo |-> 0]

MagLess(a, b) == a.hi < b.hi \/ (a.hi = b.hi /\ a.lo < b.lo)

\* unit in the last place of a magnitude, in units of 2^-56: 53 significant bits
Ulp(hi) ==
    IF hi < 2^25 THEN 1
    ELSE IF hi < 2^26 THEN 2
    ELSE IF hi < 2^27 THEN 4
    ELSE IF hi < 2^28 THEN 8
    ELSE IF hi < 2^29 THEN 16
    ELSE IF hi < 2^30 THEN 32
    ELSE 64

\* round to nearest, ties to even
RoundMag(hi, lo) ==
    LET u == Ulp(hi)
        r == lo % u
        q == lo \div u
        up == (2 * r > u) \/ (2 * r = u /\ q % 2 = 1)
        l == lo - r + (IF up THEN u ELSE 0)
    IN  IF l = Limb THEN [hi |-> hi + 1, lo |-> 0] ELSE [hi |-> hi, lo |-> l]

MagAdd(a, b) ==
    LET l == a.lo + b.lo
    IN  RoundMag(a.hi + b.hi + (l \div Limb), l % Limb)

\* a - b for magnitudes with b <= a
MagSub(a, b) ==
    LET borrow == IF a.lo < b.lo THEN 1 ELSE 0
    IN  RoundMag(a.hi - b.hi - borrow, a.lo + borrow * Limb - b.lo)

\* the double a + b
FAdd(a, b) ==
    IF a.neg = b.neg
    THEN LET m == MagAdd(a, b) IN [neg |-> a.neg, hi |-> m.hi, lo |-> m.lo]
    ELSE IF MagLess(a, b)
         THEN LET m == MagSub(b, a) IN [neg |-> b.neg, hi |-> m.hi, lo |-> m.lo]
         ELSE IF MagLess(b, a)
              THEN LET m == MagSub(a, b) IN [neg |-> a.neg, hi |-> m.hi, lo |-> m.lo]
              ELSE Zero

\* a > b
FGreater(a, b) ==
    IF a.neg /\ b.neg THEN MagLess(a, b)
    ELSE IF a.neg THEN FALSE
    ELSE IF b.neg THEN a # Zero \/ b # [Zero EXCEPT !.neg = TRUE]
    ELSE MagLess(b, a)

\* k / 1000.0 for a frame time of k ms, k a multiple of 100 with |k| <= 400:
\* 0.1 scaled by a power of two is exact
Seconds(k) ==
    LET n == IF k < 0 THEN -k ELSE k
        m == n \div 100
        l == Tenth.lo * m
    IN  IF k = 0 THEN Zero
        ELSE [neg |-> k < 0, hi |-> Tenth.hi * m + (l \div Limb), lo |-> l % Limb]

----------------------------------------------------------------------------
(* JavaScript values *)

Max(a, b) == IF a >= b THEN a ELSE b
Min(a, b) == IF a <= b THEN a ELSE b

\* obj[name]: a property the object does not have reads as undefined
Prop(obj, name) ==
    IF name \in DOMAIN obj THEN [undef |-> FALSE, v |-> obj[name]]
    ELSE [undef |-> TRUE, v |-> 0]

\* a <= n and a >= n for a number n: false when a is undefined (NaN)
JsLeq(a, n) == ~a.undef /\ a.v <= n
JsGeq(a, n) == ~a.undef /\ a.v >= n

\* msg[name] used as a condition, for the value Entities.update returned:
\* a property of a boolean is undefined, which is falsy
Truthy(msg, name) ==
    IF msg \in BOOLEAN THEN FALSE ELSE Prop(msg, name).v

----------------------------------------------------------------------------
(* Entity, Enemy, Player *)

\* velocity * dt for dt = k / 1000.0: exact in doubles for the velocities
\* 0 and +-100 and k a multiple of 100 (100 * 0.1 = 10.0, 100 * 0.2 = 20.0)
Scale(v, k) == (v * k) \div 1000

\* Entity.move
Move(pos, velocity, k) ==
    [x |-> pos.x + Scale(velocity.x, k), y |-> pos.y + Scale(velocity.y, k)]

\* Entity.shiftPosition
ShiftPosition(pos, displacement) ==
    [x |-> pos.x + displacement.x, y |-> pos.y + displacement.y]

\* Enemy.update
EnemyUpdate(enemy, k) == [enemy EXCEPT !.pos = Move(enemy.pos, enemy.movement, k)]

PlayerUpdateNoClamp(pos, input) ==
    IF input = "left" THEN ShiftPosition(pos, [x |-> -tileWidth, y |-> 0])
    ELSE IF input = "right" THEN ShiftPosition(pos, [x |-> tileWidth, y |-> 0])
    ELSE IF input = "up" THEN ShiftPosition(pos, [x |-> 0, y |-> -tileHeight])
    ELSE IF input = "down" THEN ShiftPosition(pos, [x |-> 0, y |-> tileHeight])
    ELSE pos

PlayerUpdateClampToLevel(pos, input) ==
    LET s == IF input = "left" THEN ShiftPosition(pos, [x |-> -tileWidth, y |-> 0])
             ELSE IF input = "right" THEN ShiftPosition(pos, [x |-> tileWidth, y |-> 0])
             ELSE IF input = "up" THEN ShiftPosition(pos, [x |-> 0, y |-> -tileHeight])
             ELSE IF input = "down" THEN ShiftPosition(pos, [x |-> 0, y |-> tileHeight])
             ELSE pos
    IN  [x |-> Min(Max(0, s.x), widthPixels),
         y |-> Min(Max(0, s.y), heightPixels)]

\* Player.update: the position after the input
PlayerUpdate(pos, input) ==
    LET s == IF input = "left" THEN ShiftPosition(pos, [x |-> -tileWidth, y |-> 0])
             ELSE IF input = "right" THEN ShiftPosition(pos, [x |-> tileWidth, y |-> 0])
             ELSE IF input = "up" THEN ShiftPosition(pos, [x |-> 0, y |-> -tileHeight])
             ELSE IF input = "down" THEN ShiftPosition(pos, [x |-> 0, y |-> tileHeight])
             ELSE pos
    IN  [x |-> Min(Max(0, s.x), widthPixels - tileWidth),
         y |-> Min(Max(0, s.y), heightPixels - tileHeight)]

----------------------------------------------------------------------------
(* Entities *)

\* Math.random() returns r / 1000
RandomValues == {0, 400, 700}

SpawnsOrEqual(r, k) == 2 * r <= k

\* Math.random() < dt * ENEMY_CREATION_CHANCE, with ENEMY_CREATION_CHANCE = 0.5
Spawns(r, k) == 2 * r < k

CheckEnemyCreationFromRowZero(es, k, r1, r2, r3) ==
    IF Spawns(r1, k)
    THEN LET row == (r2 * 3) \div 1000
         IN  IF r3 < 500
             THEN Append(es, [pos |-> [x |-> -tileWidth, y |-> row * tileHeight],
                              movement |-> [x |-> 100, y |-> 0]])
             ELSE Append(es, [pos |-> [x |-> widthPixels + tileWidth, y |-> row * tileHeight],
                              movement |-> [x |-> -100, y |-> 0]])
    ELSE es

\* Entities.checkEnemyCreation
CheckEnemyCreation(es, k, r1, r2, r3) ==
    IF Spawns(r1, k)
    THEN LET row == (r2 * 3 + 1000) \div 1000
         IN  IF r3 < 500
             THEN Append(es, [pos |-> [x |-> -tileWidth, y |-> row * tileHeight],
                              movement |-> [x |-> 100, y |-> 0]])
             ELSE Append(es, [pos |-> [x |-> widthPixels + tileWidth, y |-> row * tileHeight],
                              movement |-> [x |-> -100, y |-> 0]])
    ELSE es

\* the test of one enemy in checkEnemyRemoval: it reads enemyToCheck.x
RemoveEnemy(enemyToCheck) ==
    \/ JsLeq(Prop(enemyToCheck, "x"), -tileWidth) /\ enemyToCheck.movement.x < 0
    \/ JsGeq(Prop(enemyToCheck, "x"), widthPixels) /\ enemyToCheck.movement.x > 0

\* Entities.checkEnemyRemoval: remove the first enemy to remove, until none is
RECURSIVE CheckEnemyRemoval(_)
CheckEnemyRemoval(es) ==
    LET found == {i \in 1..Len(es) : RemoveEnemy(es[i])}
    IN  IF found = {} THEN es
        ELSE LET toBeRemoved == CHOOSE i \in found : \A j \in found : i <= j
             IN  CheckEnemyRemoval(SubSeq(es, 1, toBeRemoved - 1)
                                   \o SubSeq(es, toBeRemoved + 1, Len(es)))

NearInX(p, q) ==
    LET dx == p.x - q.x
    IN  25 * (dx * dx) < 9 * tileWidth * tileWidth

NearWithinTile(p, q) ==
    LET dx == p.x - q.x
        dy == p.y - q.y
    IN  dx * dx + dy * dy < tileWidth * tileWidth

\* Math.hypot(dx, dy) < tileWidth * 0.6, for whole-pixel dx and dy
Near(p, q) ==
    LET dx == p.x - q.x
        dy == p.y - q.y
    IN  25 * (dx * dx + dy * dy) < 9 * tileWidth * tileWidth

\* Entities.checkCollisions
CheckCollisions(es, ppos) == \E i \in 1..Len(es) : Near(ppos, es[i].pos)

\* Entities.update: the enemies after the frame and the value returned
EntitiesUpdate(es, ppos, k, r1, r2, r3) ==
    LET created == CheckEnemyCreation(es, k, r1, r2, r3)
        kept == CheckEnemyRemoval(created)
        moved == [i \in 1..Len(kept) |-> EnemyUpdate(kept[i], k)]
        collisionOccurred == CheckCollisions(moved, ppos)
    IN  [enemies |-> moved, result |-> ~collisionOccurred]

----------------------------------------------------------------------------
(* Engine.  The operations are functions of the engine's fields, gathered  *)
(* in a record, so that a handler that calls several of them in a row is   *)
(* one step.                                                               *)

Cur == [state |-> state, score |-> score, level |-> level, player |-> player,
        enemies |-> enemies, timeSinceReset |-> timeSinceReset,
        lastTime |-> lastTime, inputsEnabled |-> inputsEnabled,
        loading |-> loading, runs |-> runs, chains |-> chains]

Install(e) ==
    /\ state' = e.state
    /\ score' = e.score
    /\ level' = e.level
    /\ player' = e.player
    /\ enemies' = e.enemies
    /\ timeSinceReset' = e.timeSinceReset
    /\ lastTime' = e.lastTime
    /\ inputsEnabled' = e.inputsEnabled
    /\ loading' = e.loading
    /\ runs' = e.runs
    /\ chains' = e.chains

\* Engine.reset, with Entities.constructor, InputHandler.constructor and
\* Engine.prepareResources.  The player's pos is the level's start object.
\* inputsEnabled of the new InputHandler is undefined: FALSE stands for it.
\* No animation frame that was asked for is cancelled.
EngineReset(e, fullReset) ==
    LET lv == IF fullReset THEN LevelsReset ELSE LevelsNext(e.level)
    IN  [state |-> "initialising",
         score |-> IF fullReset THEN 0 ELSE e.score,
         level |-> lv,
         player |-> [pos |-> lv.start],
         enemies |-> << >>,
         timeSinceReset |-> Zero,
         lastTime |-> 0,
         inputsEnabled |-> FALSE,
         loading |-> TRUE,
         runs |-> 0,
         chains |-> e.chains]

PlayerInputAllowedAfterOne(t) == FGreater(t, [neg |-> FALSE, hi |-> 2^28, lo |-> 0])

\* Engine.playerInputAllowed
PlayerInputAllowed(t) == FGreater(t, Two)

\* Engine.update after its early return: the frame of a running game
UpdateRunning(e1, k, r1, r2, r3) ==
    LET e2 == IF PlayerInputAllowed(e1.timeSinceReset)
              THEN [e1 EXCEPT !.inputsEnabled = TRUE] ELSE e1
        ents == EntitiesUpdate(e2.enemies, e2.player.pos, k, r1, r2, r3)
        entityMessages == ents.result
        e3 == [e2 EXCEPT !.enemies = ents.enemies]
    IN  IF Truthy(entityMessages, "hitEnemy")
        THEN [e3 EXCEPT !.inputsEnabled = FALSE, !.state = "gameOver"]
        ELSE IF Truthy(entityMessages, "levelWon")
        THEN [e3 EXCEPT !.inputsEnabled = FALSE, !.state = "levelWin"]
        ELSE IF Truthy(entityMessages, "pickedUpGem")
        THEN [e3 EXCEPT !.score = @ + 1]
        ELSE e3

EngineUpdateNoReturn(e, k, r1, r2, r3) ==
    UpdateRunning([e EXCEPT !.timeSinceReset = FAdd(e.timeSinceReset, Seconds(k))],
                  k, r1, r2, r3)

\* Engine.update(dt), dt = k / 1000.0; r1, r2, r3 are the Math.random() draws
EngineUpdate(e, k, r1, r2, r3) ==
    LET e1 == [e EXCEPT !.timeSinceReset = FAdd(e.timeSinceReset, Seconds(k))]
    IN  IF e1.state # "running" THEN e1
        ELSE UpdateRunning(e1, k, r1, r2, r3)

\* Engine.initialiseLevel; now is the reading of Date.now()
InitialiseLevel(e, now) == [e EXCEPT !.state = "running", !.lastTime = now]

\* Math.min(0.1, dt): the cap, in ms
MaxDt == 100

\* the dt of Engine.runLoopIteration, in ms: Math.min(0.1, this.updateTimer())
LoopDt(e, now) == Min(MaxDt, now - e.lastTime)

\* Engine.render: renderEntities reads this.entities.gems, a property that
\* Entities never sets, and calls forEach on it: a TypeError
RenderThrows == TRUE

\* Engine.runLoopIteration with Engine.updateTimer.  When render throws, the
\* iteration ends before window.requestAnimationFrame: no next frame is asked for.
RunLoopIteration(e, now, r1, r2, r3) ==
    LET updated == EngineUpdate([e EXCEPT !.lastTime = now], LoopDt(e, now), r1, r2, r3)
    IN  [next |-> updated, requested |-> IF RenderThrows THEN 0 ELSE 1]

\* Engine.run: the first iteration, and the frame it asks for
EngineRun(e, now1, now2, r1, r2, r3) ==
    LET first == RunLoopIteration(InitialiseLevel(e, now1), now2, r1, r2, r3)
    IN  [first.next EXCEPT !.runs = @ + 1, !.chains = @ + first.requested]

\* Engine.buttonLeft .. buttonBottom; buttonLeft is (canvas.width - BUTTON_WIDTH) / 2
BUTTON_HEIGHT == 50
BUTTON_WIDTH == 200
MESSAGE_PADDING == 30
MESSAGE_BORDER == 10
BUTTON_Y_OFFSET == 85
CANVAS_Y_OFFSET == 55
ButtonTop == MESSAGE_PADDING + MESSAGE_BORDER + CANVAS_Y_OFFSET + BUTTON_Y_OFFSET
ButtonBottom == ButtonTop + BUTTON_HEIGHT
InButton(x, y) ==
    /\ 2 * x >= widthPixels - BUTTON_WIDTH
    /\ 2 * x < widthPixels - BUTTON_WIDTH + 2 * BUTTON_WIDTH
    /\ y >= ButtonTop
    /\ y < ButtonBottom

----------------------------------------------------------------------------
(* Bounds and inputs *)

MaxEnemies == 1       \* enemies created since a reset
\* Engine.update is called while timeSinceReset is below this many tenths of a second
MaxTicks == 5         \* in Spec
GraceTicks == 21      \* in GraceSpec
SweepTicks == 62      \* in SweepSpec

Clock == {1000, 1100, 1200}     \* readings of Date.now()
DtValues == {0, 100}            \* frame times of a direct call of Engine.update
KeyCodes == {32, 37, 38, 39, 40}
ClickX == {100, 250}
ClickY == {100, 200}

\* a function is called on its own with arguments from these sets
Margin == 3           \* rows and columns asked for beyond each side of the grid
TileRows == (0 - Margin)..(heightTiles - 1 + Margin)
TileCols == (0 - Margin)..(widthTiles - 1 + Margin)
NoCall == [fn |-> "none"]
MaxProbeEnemies == 2  \* enemies in a collection handed to checkCollisions
\* the player in the middle column, in any row
ProbePlayers == {[x |-> 2 * tileWidth, y |-> row * tileHeight] : row \in 0..(heightTiles - 1)}
\* enemies in their lanes: a tile, just over and just under 0.6 tiles to
\* either side of the player's column, and in it
ProbeOffsets == {-tileWidth, -61, -60, 0, 60, 61, tileWidth}
ProbeEnemies ==
    {[pos |-> [x |-> 2 * tileWidth + d, y |-> row * tileHeight],
      movement |-> [x |-> 100, y |-> 0]] : d \in ProbeOffsets, row \in 1..3}
ProbeCollections ==
    UNION {[1..n -> ProbeEnemies] : n \in 0..MaxProbeEnemies}

TimeBelow(ticks) == timeSinceReset.neg \/ timeSinceReset.hi < ticks * Tenth.hi

\* the Math.random() draws of one frame of k ms: the second and third are
\* made only when the first creates an enemy; no more than MaxEnemies
\* enemies are created
Draws(k) ==
    {d \in RandomValues \X RandomValues \X RandomValues :
        IF Spawns(d[1], k) THEN Len(enemies) < MaxEnemies ELSE d[2] = 0 /\ d[3] = 0}

\* the history variable frames after a call of Engine.update in state st
FramesAfter(st, k, r1) ==
    IF frames >= 0 /\ st = "running" /\ k = 100 /\ ~Spawns(r1, k)
    THEN frames + 1 ELSE -1

----------------------------------------------------------------------------
(* Actions *)

\* Resources: the callbacks given to onReady are called once, when the
\* images asked for by load are all there
OnReadyPending == loading

ConstructedAndRun ==
    EngineRun(EngineReset([score |-> 0, level |-> LevelsReset, chains |-> 0], TRUE),
              1000, 1000, 700, 0, 0)

\* new Engine(): initialiseConstants, then reset(true)
Constructed == EngineReset([score |-> 0, level |-> LevelsReset, chains |-> 0], TRUE)

Init ==
    /\ state = Constructed.state
    /\ score = Constructed.score
    /\ level = Constructed.level
    /\ player = Constructed.player
    /\ enemies = Constructed.enemies
    /\ timeSinceReset = Constructed.timeSinceReset
    /\ lastTime = Constructed.lastTime
    /\ inputsEnabled = Constructed.inputsEnabled
    /\ loading = Constructed.loading
    /\ runs = Constructed.runs
    /\ chains = Constructed.chains
    /\ loopDt = 0
    /\ frames = 0
    /\ probe = NoCall

ResourcesReadyAgain(now1, now2) ==
    LET k == LoopDt(InitialiseLevel(Cur, now1), now2)
    IN  /\ OnReadyPending
        /\ \E d \in Draws(k) :
              /\ Install(EngineRun(Cur, now1, now2, d[1], d[2], d[3]))
              /\ frames' = FramesAfter("running", k, d[1])
        /\ loopDt' = k
        /\ UNCHANGED probe

\* the Resources.onReady callback of Engine.prepareResources: () => that.run()
ResourcesReady(now1, now2) ==
    LET e == [Cur EXCEPT !.loading = FALSE]
        k == LoopDt(InitialiseLevel(e, now1), now2)
    IN  /\ OnReadyPending
        /\ \E d \in Draws(k) :
              /\ Install(EngineRun(e, now1, now2, d[1], d[2], d[3]))
              /\ frames' = FramesAfter("running", k, d[1])
        /\ loopDt' = k
        /\ UNCHANGED probe

\* a call of Engine.update(k / 1000.0): one frame
Update(k) ==
    /\ \E d \in Draws(k) :
          /\ Install(EngineUpdate(Cur, k, d[1], d[2], d[3]))
          /\ frames' = FramesAfter(state, k, d[1])
    /\ UNCHANGED <<loopDt, probe>>

\* InputHandler.allowedKeys
allowedKeys == (37 :> "left") @@ (38 :> "up") @@ (39 :> "right") @@ (40 :> "down")

\* the keyup listener of InputHandler.initializeEventListeners.  The player's
\* pos and the level's start are one object (Entities.constructor hands
\* level.start to Player, Entity.constructor keeps it): both change.
KeyUp(keyCode) ==
    /\ IF keyCode \in DOMAIN allowedKeys
       THEN LET pos == PlayerUpdate(player.pos, allowedKeys[keyCode])
            IN  /\ player' = [player EXCEPT !.pos = pos]
                /\ level' = [level EXCEPT !.start = pos]
       ELSE UNCHANGED <<player, level>>
    /\ UNCHANGED <<state, score, enemies, timeSinceReset, lastTime,
                   inputsEnabled, loading, runs, chains, loopDt, frames, probe>>

\* Engine.handleClick: reset and run, in one handler.  The callback that
\* prepareResources registered in reset is still to come.
HandleClick(x, y) ==
    IF InButton(x, y) /\ state \in {"gameOver", "levelWin"}
    THEN \E now1, now2 \in Clock :
            LET e == EngineReset(Cur, state = "gameOver")
                k == LoopDt(InitialiseLevel(e, now1), now2)
            IN  /\ \E d \in RandomValues \X RandomValues \X RandomValues :
                      /\ ~Spawns(d[1], k) => d[2] = 0 /\ d[3] = 0
                      /\ Install(EngineRun(e, now1, now2, d[1], d[2], d[3]))
                      /\ frames' = IF k = 100 /\ ~Spawns(d[1], k) THEN 1 ELSE -1
                /\ loopDt' = k
                /\ UNCHANGED probe
    ELSE UNCHANGED vars

\* a call of Level.getTile(row, col) on the engine's level
GetTileCall(row, col) ==
    /\ probe' = [fn |-> "getTile", row |-> row, col |-> col, result |-> GetTile(row, col)]
    /\ UNCHANGED <<state, score, level, player, enemies, timeSinceReset, lastTime,
                   inputsEnabled, loading, runs, chains, loopDt, frames>>

Next ==
    \/ \E now1, now2 \in Clock : ResourcesReady(now1, now2)
    \/ \E k \in DtValues : TimeBelow(MaxTicks) /\ Update(k)
    \/ \E keyCode \in KeyCodes : KeyUp(keyCode)
    \/ \E x \in ClickX, y \in ClickY : HandleClick(x, y)

Spec == Init /\ [][Next]_vars

\* the game left alone by the keyboard, over the grace period
GraceNext ==
    \/ \E now1, now2 \in Clock : ResourcesReady(now1, now2)
    \/ \E k \in DtValues : TimeBelow(GraceTicks) /\ Update(k)
    \/ \E x \in ClickX, y \in ClickY : HandleClick(x, y)

GraceSpec == Init /\ [][GraceNext]_vars

\* the game left alone by the keyboard, for as long as an enemy takes to cross
SweepNext ==
    \/ \E now1, now2 \in Clock : ResourcesReady(now1, now2)
    \/ \E k \in DtValues : TimeBelow(SweepTicks) /\ Update(k)
    \/ \E x \in ClickX, y \in ClickY : HandleClick(x, y)

SweepSpec == Init /\ [][SweepNext]_vars

\* the start of the game and the keyboard, without further frames
StartNext ==
    \/ \E now1, now2 \in Clock : ResourcesReady(now1, now2)
    \/ \E keyCode \in KeyCodes : KeyUp(keyCode)
    \/ \E x \in ClickX, y \in ClickY : HandleClick(x, y)

StartSpec == Init /\ [][StartNext]_vars

\* the game played with the keyboard after a first frame of 0.1 s: frames
\* of 0 or 0.1 s while it runs, calls of Engine.update(0) before it runs
PlayNext ==
    \/ \E now \in {1000} : ResourcesReady(now, now + MaxDt)
    \/ \E k \in DtValues : TimeBelow(MaxTicks) /\ (state = "running" \/ k = 0) /\ Update(k)
    \/ \E keyCode \in KeyCodes : KeyUp(keyCode)
    \/ \E x \in ClickX, y \in ClickY : HandleClick(x, y)

PlaySpec == Init /\ [][PlayNext]_vars

\* a call of Entities.checkCollisions() on a collection es and a player at ppos
CheckCollisionsCall(es, ppos) ==
    /\ probe' = [fn |-> "checkCollisions", enemies |-> es, player |-> ppos,
                 result |-> CheckCollisions(es, ppos)]
    /\ UNCHANGED <<state, score, level, player, enemies, timeSinceReset, lastTime,
                   inputsEnabled, loading, runs, chains, loopDt, frames>>

\* Entities.checkCollisions over collections of enemies around the player,
\* one call in a behaviour
CollisionNext ==
    /\ probe = NoCall
    /\ \E es \in ProbeCollections, ppos \in ProbePlayers : CheckCollisionsCall(es, ppos)

CollisionSpec == Init /\ [][CollisionNext]_vars

\* Level.getTile over the grid and its surroundings, one call in a behaviour
TileNext ==
    /\ probe = NoCall
    /\ \E row \in TileRows, col \in TileCols : GetTileCall(row, col)

TileSpec == Init /\ [][TileNext]_vars

----------------------------------------------------------------------------
(* Claims *)

\* a step that is a call of Engine.update
UpdateStep == \E k \in DtValues : Update(k)

\* a step that is a keyup event
KeyUpStep == \E keyCode \in KeyCodes : KeyUp(keyCode)

\* C1: a frame of the running game after whose advance some enemy is nearer
\* than 0.6 * tileWidth to the player ends in state gameOver.
C1_CollisionEndsGame ==
    [][(state = "running" /\ UpdateStep /\ CheckCollisions(enemies', player'.pos))
        => state' = "gameOver"]_vars

\* C2: a key event moves the player only when the game is running and more
\* than 2 seconds have accumulated since the reset.
C2_KeysGated ==
    [][(KeyUpStep /\ player'.pos # player.pos)
        => (state = "running" /\ PlayerInputAllowed(timeSinceReset))]_vars

\* C3: no enemy of the collection is off screen in its direction of travel.
C3_NoOffscreenEnemy ==
    \A i \in 1..Len(enemies) :
        /\ ~(enemies[i].pos.x <= -tileWidth /\ enemies[i].movement.x < 0)
        /\ ~(enemies[i].pos.x >= widthPixels /\ enemies[i].movement.x > 0)

\* C4: the player's position stays within the level:
\* 0 <= x <= widthPixels - tileWidth and 0 <= y <= heightPixels - tileHeight.
C4_PlayerInBounds ==
    /\ 0 <= player.pos.x /\ player.pos.x <= widthPixels - tileWidth
    /\ 0 <= player.pos.y /\ player.pos.y <= heightPixels - tileHeight

\* the player has been driven into the top right corner, against both clamps
C4_Witness ==
    player.pos = [x |-> widthPixels - tileWidth, y |-> 0]

\* C7: a call of Engine.update in a state other than running leaves the
\* enemies, the player, the level, the score and the state as they were.
C7_IdleUpdateOnlyTimer ==
    [][(state # "running" /\ UpdateStep)
        => UNCHANGED <<enemies, player, level, score, state>>]_vars

\* Engine.update has advanced the timer of a game that is not running
C7_Witness ==
    state = "initialising" /\ timeSinceReset # Zero

\* C8: every dt the loop driver passes to Engine.update is within [0, 0.1] s.
C8_LoopDtInRange == 0 <= loopDt /\ loopDt <= MaxDt

\* C9: the level's start position is column 2, row 5, whatever has happened.
C9_StartFixed == level.start = [x |-> 2 * tileWidth, y |-> 5 * tileHeight]

\* 2.0000000000000004 = 0x1.0000000000001p+1, the double sum of twenty 0.1
TwentyTenths == [neg |-> FALSE, hi |-> 2^29, lo |-> 32]

\* C10 as stated: after exactly 20 running frames of 0.1 s with failed spawn
\* trials the enemy collection is empty and player input is not allowed.
C10_StillDisabledAtTwenty ==
    frames = 20 => (enemies = << >> /\ ~PlayerInputAllowed(timeSinceReset))

\* C10, amended: after exactly 20 such frames the enemy collection is empty
\* and the accumulated time is the double 2.0000000000000004, which exceeds
\* 2, so player input is allowed; after fewer such frames it is not allowed.
C10_AllowedAtTwenty ==
    /\ frames = 20 => /\ enemies = << >>
                      /\ timeSinceReset = TwentyTenths
                      /\ PlayerInputAllowed(timeSinceReset)
                      /\ inputsEnabled
    /\ frames \in 0..19 => /\ enemies = << >>
                           /\ ~PlayerInputAllowed(timeSinceReset)
                           /\ ~inputsEnabled

\* the twentieth such frame has been run
C10_Witness == frames = 20


\* C11: a call of Engine.update with dt = 0, in any state, moves no entity,
\* adds no enemy and changes neither the score nor the game state
C11_ZeroDtChangesNothing ==
    [][Update(0) => UNCHANGED <<enemies, player, level, score, state>>]_vars

\* a running game whose only frame of 0.1 s was the first of the loop and
\* failed its spawn trial, after a call of Engine.update with dt = 0
C11_Witness ==
    /\ state = "running"
    /\ loopDt = 100
    /\ timeSinceReset = Tenth
    /\ enemies = << >>
    /\ frames = -1

\* the arguments of the last call of Level.getTile lie on the grid
ProbeOnGrid ==
    /\ probe.fn = "getTile"
    /\ probe.row \in 0..(heightTiles - 1)
    /\ probe.col \in 0..(widthTiles - 1)

ProbeOffGrid == probe.fn = "getTile" /\ ~ProbeOnGrid

\* C12: Level.getTile(row, col) fails with an index error whenever row or col
\* is off the grid, and returns no tile or other value for such a pair
C12_OffGridFails == ProbeOffGrid => probe.result = "IndexError"

\* C15: the tile sequence has widthTiles * heightTiles = 30 elements, and on
\* the grid getTile gives water in row 0, stone in rows 1..3, grass in rows 4..5
C15_TileLayout ==
    /\ Len(Tiles) = widthTiles * heightTiles
    /\ Len(Tiles) = 30
    /\ ProbeOnGrid =>
          probe.result = IF probe.row = 0 THEN "images/water-block.png"
                         ELSE IF probe.row \in 1..3 THEN "images/stone-block.png"
                         ELSE "images/grass-block.png"

\* the last tile of the last stone row has been asked for
C15_Witness ==
    /\ ProbeOnGrid
    /\ probe.row = 3
    /\ probe.col = widthTiles - 1
    /\ probe.result = "images/stone-block.png"

FrameStep == Scale(100, MaxDt)

\* C14: every enemy is in row 1, 2 or 3, has vertical velocity 0, and moves
\* at +100 px/s from its creation at x = -tileWidth or at -100 px/s from its
\* creation at x = widthPixels + tileWidth
C14_EnemiesInLanes ==
    \A i \in 1..Len(enemies) :
        /\ enemies[i].pos.y \in {row * tileHeight : row \in 1..3}
        /\ enemies[i].movement.y = 0
        /\ \/ /\ enemies[i].movement.x = 100
              /\ enemies[i].pos.x >= -tileWidth
              /\ (enemies[i].pos.x + tileWidth) % FrameStep = 0
           \/ /\ enemies[i].movement.x = -100
              /\ enemies[i].pos.x <= widthPixels + tileWidth
              /\ (widthPixels + tileWidth - enemies[i].pos.x) % FrameStep = 0

\* an enemy of row 2, three frames after its creation at the right
C14_Witness ==
    \E i \in 1..Len(enemies) :
        /\ enemies[i].movement.x = -100
        /\ enemies[i].pos = [x |-> widthPixels + tileWidth - 3 * FrameStep, y |-> 2 * tileHeight]

\* the square of the distance between two positions
SquareDistance(p, q) == (p.x - q.x) * (p.x - q.x) + (p.y - q.y) * (p.y - q.y)

\* C16: checkCollisions is true exactly when some enemy is nearer to the
\* player than 0.6 * tileWidth (100 d^2 < 36 tileWidth^2); an enemy at the
\* player's position gives true, enemies all a tile or more away give false
C16_CollisionIffClose ==
    probe.fn = "checkCollisions" =>
        /\ probe.result <=>
              \E i \in 1..Len(probe.enemies) :
                  100 * SquareDistance(probe.player, probe.enemies[i].pos)
                      < 36 * tileWidth * tileWidth
        /\ (\E i \in 1..Len(probe.enemies) : probe.enemies[i].pos = probe.player)
              => probe.result
        /\ (\A i \in 1..Len(probe.enemies) :
                SquareDistance(probe.player, probe.enemies[i].pos) >= tileWidth * tileWidth)
              => ~probe.result

\* a collection whose first enemy is a tile away and whose second enemy is
\* at the player's position
C16_Witness ==
    /\ probe.fn = "checkCollisions"
    /\ Len(probe.enemies) = 2
    /\ SquareDistance(probe.player, probe.enemies[1].pos) = tileWidth * tileWidth
    /\ probe.enemies[2].pos = probe.player
    /\ probe.result

\* an enemy that has left the screen in its direction of travel
OffScreen(enemy) ==
    \/ enemy.pos.x <= -tileWidth /\ enemy.movement.x < 0
    \/ enemy.pos.x >= widthPixels /\ enemy.movement.x > 0

\* the enemies after a frame of k ms with the draws d whose steps are, in
\* this order: spawn check, removal sweep on the positions as they are,
\* advance of every enemy that is left
FrameInOrder(es, k, d) ==
    LET created == CheckEnemyCreation(es, k, d[1], d[2], d[3])
        kept == SelectSeq(created, LAMBDA enemy : ~OffScreen(enemy))
    IN  [i \in 1..Len(kept) |-> EnemyUpdate(kept[i], k)]

\* C17: a Running frame is spawn check, removal sweep, advance, collision
\* test: an enemy created in the frame is advanced in it, and the sweep
\* removes by the positions from before the frame's advance
C17_FrameOrder ==
    [][(state = "running" /\ UpdateStep)
        => \E k \in DtValues : \E d \in Draws(k) : enemies' = FrameInOrder(enemies, k, d)]_vars

\* the player stands on a tile of the level
OnTile ==
    \E col \in 0..(widthTiles - 1), row \in 0..(heightTiles - 1) :
        player.pos = [x |-> col * tileWidth, y |-> row * tileHeight]

\* one tile in a direction
OneTile(direction) ==
    IF direction = "left" THEN [x |-> -tileWidth, y |-> 0]
    ELSE IF direction = "right" THEN [x |-> tileWidth, y |-> 0]
    ELSE IF direction = "up" THEN [x |-> 0, y |-> -tileHeight]
    ELSE [x |-> 0, y |-> tileHeight]

\* the position is at the edge of the level in a direction
AtEdge(pos, direction) ==
    IF direction = "left" THEN pos.x = 0
    ELSE IF direction = "right" THEN pos.x = (widthTiles - 1) * tileWidth
    ELSE IF direction = "up" THEN pos.y = 0
    ELSE pos.y = (heightTiles - 1) * tileHeight

\* C19: the player is always on a tile (column 0..4, row 0..5), and a
\* Player.update(direction) moves it by one tile in the direction, the other
\* coordinate unchanged, or leaves it where it is at that edge of the level
C19_OnTileOneStep ==
    /\ []OnTile
    /\ [][\A keyCode \in DOMAIN allowedKeys :
            KeyUp(keyCode) =>
                \/ /\ player'.pos.x = player.pos.x + OneTile(allowedKeys[keyCode]).x
                   /\ player'.pos.y = player.pos.y + OneTile(allowedKeys[keyCode]).y
                \/ /\ player'.pos = player.pos
                   /\ AtEdge(player.pos, allowedKeys[keyCode])]_vars

\* the player in the bottom left corner, where the keys have brought it
C19_Witness == player.pos = [x |-> 0, y |-> (heightTiles - 1) * tileHeight]

\* C20: checkCollisions is false whenever the player stands on row 0 or on
\* rows 4..5, and whenever no enemy is in the player's row
C20_CollisionOnlyInRow ==
    /\ player.pos.y \in {row * tileHeight : row \in {0, 4, 5}}
          => ~CheckCollisions(enemies, player.pos)
    /\ (\A i \in 1..Len(enemies) : enemies[i].pos.y # player.pos.y)
          => ~CheckCollisions(enemies, player.pos)

\* the player on the grass of row 4, right under an enemy of row 3 that is
\* less than 0.6 tiles to its side
C20_Witness ==
    /\ player.pos.y = 4 * tileHeight
    /\ \E i \in 1..Len(enemies) :
          /\ enemies[i].pos.y = 3 * tileHeight
          /\ enemies[i].pos.x \in (player.pos.x - 60)..(player.pos.x + 60)
    /\ ~CheckCollisions(enemies, player.pos)

====
